---- MODULE Spec2Model ----
(***************************************************************************)
(* cmdkit: saved shell workflows with {{placeholder}} substitution.        *)
(*                                                                         *)
(* Python strings that the code inspects character by character (command   *)
(* templates, trailing CLI tokens, placeholder names, values) are          *)
(* sequences of one-character strings.  Workflow names and tags, which the *)
(* code only uses as keys, are plain strings.                              *)
(***************************************************************************)
EXTENDS Integers, Sequences, FiniteSets, TLC

VARIABLES
    disk,   \* ~/.cmdkit/config.json: [kind, reg]
    dflt,   \* the dict object held by DEFAULT_CONFIG["workflows"]
    res     \* what the last call did: its inputs, collaborator calls, outcome

vars == <<disk, dflt, res>>

----------------------------------------------------------------------------
(* Bounds and input domains                                                *)

MaxCmds == 3        \* longest command list of a workflow
MaxArgs == 3        \* longest trailing token sequence given to the resolver

\* exit codes the process-execution collaborator returns
ExitCodes == {0, 1, 2}

\* lines the interactive prompt returns
Values == {<<"v">>, <<"w">>}

\* placeholder names
PhNames == {<<"x">>, <<"y">>, <<"k">>}

\* command templates: literal text and {{word}} placeholders, plus one
\* already-spaced {{ word }} that the placeholder pattern does not match
CmdTemplates ==
    { <<"c">>,
      <<"d", " ", "{", "{", "x", "}", "}">>,
      <<"{", "{", "y", "}", "}", " ", "{", "{", " ", "k", " ", "}", "}">> }

\* trailing tokens: --x, --y, --, v, w
Tokens ==
    { <<"-", "-", "x">>, <<"-", "-", "y">>, <<"-", "-">>, <<"v">>, <<"w">> }

SeqsUpTo(S, n) == UNION { [1..m -> S] : m \in 0..n }

----------------------------------------------------------------------------
(* Python string and dict primitives                                       *)

\* str.startswith
StartsWith(s, p) == Len(s) >= Len(p) /\ SubSeq(s, 1, Len(p)) = p

\* code points of the characters in use (str comparison is by code point)
Ord(c) ==
    CASE c = " " -> 32 [] c = "&" -> 38 [] c = "-" -> 45 [] c = "_" -> 95
      [] c = "c" -> 99 [] c = "d" -> 100 [] c = "k" -> 107 [] c = "v" -> 118
      [] c = "w" -> 119 [] c = "x" -> 120 [] c = "y" -> 121 [] c = "{" -> 123
      [] c = "|" -> 124 [] c = "}" -> 125

\* s < t on Python strings
RECURSIVE StrLess(_, _)
StrLess(s, t) ==
    IF t = <<>> THEN FALSE
    ELSE IF s = <<>> THEN TRUE
    ELSE IF s[1] # t[1] THEN Ord(s[1]) < Ord(t[1])
    ELSE StrLess(Tail(s), Tail(t))

\* sorted(S) for a set of strings
RECURSIVE Sorted(_)
Sorted(S) ==
    IF S = {} THEN <<>>
    ELSE LET m == CHOOSE a \in S : \A b \in S \ {a} : StrLess(a, b)
         IN  <<m>> \o Sorted(S \ {m})

\* {} and d[k] = v
EmptyDict == [k \in {} |-> <<>>]
Put(d, k, v) == [x \in (DOMAIN d) \cup {k} |-> IF x = k THEN v ELSE d[x]]

\* sep.join(parts)
RECURSIVE Join(_, _)
Join(sep, parts) ==
    IF parts = <<>> THEN <<>>
    ELSE IF Len(parts) = 1 THEN parts[1]
    ELSE parts[1] \o sep \o Join(sep, Tail(parts))

----------------------------------------------------------------------------
(* The placeholder pattern \{\{(\w+)\}\}                                   *)

\* the characters of the alphabet that \w matches
WordChars == {"c", "d", "k", "v", "w", "x", "y", "_"}

\* first index >= k of s that holds no word character
RECURSIVE WordRunEnd(_, _)
WordRunEnd(s, k) ==
    IF k <= Len(s) /\ s[k] \in WordChars THEN WordRunEnd(s, k + 1) ELSE k

\* index of the last character of a match starting at i, or 0
MatchEnd(s, i) ==
    IF i + 1 <= Len(s) /\ s[i] = "{" /\ s[i + 1] = "{"
    THEN LET j == WordRunEnd(s, i + 2)
         IN  IF j > i + 2 /\ j + 1 <= Len(s) /\ s[j] = "}" /\ s[j + 1] = "}"
             THEN j + 1 ELSE 0
    ELSE 0

\* pattern.findall(cmd): the captured names, left to right, not overlapping
RECURSIVE FindAllFrom(_, _)
FindAllFrom(s, i) ==
    IF i > Len(s) THEN <<>>
    ELSE LET e == MatchEnd(s, i)
         IN  IF e = 0 THEN FindAllFrom(s, i + 1)
             ELSE <<SubSeq(s, i + 2, e - 2)>> \o FindAllFrom(s, e + 1)

FindAll(s) == FindAllFrom(s, 1)

\* re.sub(r"\{\{(\w+)\}\}", r"{{ \1 }}", cmd)
RECURSIVE ReSubFrom(_, _)
ReSubFrom(s, i) ==
    IF i > Len(s) THEN <<>>
    ELSE LET e == MatchEnd(s, i)
         IN  IF e = 0 THEN <<s[i]>> \o ReSubFrom(s, i + 1)
             ELSE <<"{", "{", " ">> \o SubSeq(s, i + 2, e - 2)
                    \o <<" ", "}", "}">> \o ReSubFrom(s, e + 1)

ReSub(s) == ReSubFrom(s, 1)

Range(q) == { q[i] : i \in DOMAIN q }

\* the elements of a finite set in some order
RECURSIVE SetToSeq(_)
SetToSeq(S) ==
    IF S = {} THEN <<>>
    ELSE LET e == CHOOSE x \in S : TRUE IN <<e>> \o SetToSeq(S \ {e})

\* extract_placeholders(commands)
RECURSIVE extract_placeholders(_)
extract_placeholders(commands) ==
    IF commands = <<>> THEN {}
    ELSE Range(FindAll(Head(commands))) \cup extract_placeholders(Tail(commands))

----------------------------------------------------------------------------
(* jinja2 Template.render with the mapping: a variable block {{ name }}    *)
(* prints the value of name, or nothing when name is undefined (jinja2's   *)
(* default Undefined); other text is copied.                               *)

RECURSIVE SkipSpaces(_, _)
SkipSpaces(s, k) ==
    IF k <= Len(s) /\ s[k] = " " THEN SkipSpaces(s, k + 1) ELSE k

\* for a variable block opening at i: [ok, name, last]
VarBlock(t, i) ==
    LET a == SkipSpaces(t, i + 2)
        b == WordRunEnd(t, a)
        c == SkipSpaces(t, b)
    IN  IF b > a /\ c + 1 <= Len(t) /\ t[c] = "}" /\ t[c + 1] = "}"
        THEN [ok |-> TRUE, name |-> SubSeq(t, a, b - 1), last |-> c + 1]
        ELSE [ok |-> FALSE, name |-> <<>>, last |-> 0]

RECURSIVE JinjaFrom(_, _, _)
JinjaFrom(t, i, values) ==
    IF i > Len(t) THEN [raised |-> FALSE, text |-> <<>>]
    ELSE IF i + 1 <= Len(t) /\ t[i] = "{" /\ t[i + 1] = "{"
    THEN LET vb == VarBlock(t, i)
         IN  IF ~vb.ok THEN [raised |-> TRUE, text |-> <<>>]
             ELSE LET rest == JinjaFrom(t, vb.last + 1, values)
                      val  == IF vb.name \in DOMAIN values
                              THEN values[vb.name] ELSE <<>>
                  IN  [raised |-> rest.raised, text |-> val \o rest.text]
    ELSE LET rest == JinjaFrom(t, i + 1, values)
         IN  [raised |-> rest.raised, text |-> <<t[i]>> \o rest.text]

JinjaRender(t, values) == JinjaFrom(t, 1, values)

\* render_commands(commands, values): [raised, cmds]
RECURSIVE render_commands(_, _)
render_commands(commands, values) ==
    IF commands = <<>> THEN [raised |-> FALSE, cmds |-> <<>>]
    ELSE LET r    == JinjaRender(ReSub(Head(commands)), values)
             rest == render_commands(Tail(commands), values)
         IN  IF r.raised THEN [raised |-> TRUE, cmds |-> <<>>]
             ELSE [raised |-> rest.raised,
                   cmds   |-> IF rest.raised THEN <<>> ELSE <<r.text>> \o rest.cmds]

----------------------------------------------------------------------------
(* collect_placeholder_values                                              *)

Dashes == <<"-", "-">>

\* the while loop over cli_args, from cursor i with the mapping so far
RECURSIVE ParseArgs(_, _, _)
ParseArgs(cli_args, i, values) ==
    IF i > Len(cli_args) THEN values
    ELSE LET arg == cli_args[i]
         IN  IF StartsWith(arg, Dashes)
             THEN LET key == SubSeq(arg, 3, Len(arg))
                  IN  IF i + 1 <= Len(cli_args) /\ ~StartsWith(cli_args[i + 1], Dashes)
                      THEN ParseArgs(cli_args, i + 2, Put(values, key, cli_args[i + 1]))
                      ELSE ParseArgs(cli_args, i + 1, values)
             ELSE ParseArgs(cli_args, i + 1, values)

\* the for loop over sorted(placeholders); stdin holds the lines input() is
\* still to return; acc = [raised, values, prompts].  The prompt for a name
\* is printed before input() is called; input() raises EOFError when no
\* line is left, and the exception leaves the function.
RECURSIVE PromptMissing_PromptsAll(_, _, _)
PromptMissing_PromptsAll(todo, stdin, acc) ==
    IF todo = <<>> THEN acc
    ELSE IF stdin = <<>>
    THEN [acc EXCEPT !.raised = TRUE, !.prompts = Append(@, Head(todo))]
    ELSE PromptMissing_PromptsAll(Tail(todo), Tail(stdin),
             [acc EXCEPT !.values  = Put(@, Head(todo), Head(stdin)),
                         !.prompts = Append(@, Head(todo))])

RECURSIVE PromptMissing(_, _, _)
PromptMissing(todo, stdin, acc) ==
    IF todo = <<>> THEN acc
    ELSE IF Head(todo) \in DOMAIN acc.values
    THEN PromptMissing(Tail(todo), stdin, acc)
    ELSE IF stdin = <<>>
    THEN [acc EXCEPT !.raised = TRUE, !.prompts = Append(@, Head(todo))]
    ELSE PromptMissing(Tail(todo), Tail(stdin),
                       [acc EXCEPT !.values  = Put(@, Head(todo), Head(stdin)),
                                   !.prompts = Append(@, Head(todo))])

\* [raised  |-> input() raised EOFError,
\*  values  |-> the mapping built (returned unless raised),
\*  prompts |-> the names prompted for, in order]
collect_placeholder_values(placeholders, cli_args, stdin) ==
    PromptMissing(Sorted(placeholders), stdin,
                  [raised |-> FALSE, values |-> ParseArgs(cli_args, 1, EmptyDict),
                   prompts |-> <<>>])

----------------------------------------------------------------------------
(* The record of a call                                                    *)

NoRes ==
    [op |-> "init", name |-> "", tag |-> "", cmds |-> <<>>, phs |-> {},
     dry |-> FALSE, sof |-> FALSE, sos |-> FALSE, args |-> <<>>,
     exit |-> 0, raised |-> FALSE, loads |-> 0, saves |-> 0,
     prompts |-> <<>>, values |-> EmptyDict, rendered |-> <<>>,
     spawned |-> <<>>, rcs |-> <<>>, failed |-> <<>>, out |-> <<>>,
     loaded |-> EmptyDict, shape |-> "dict"]

\* what stdin holds for one call: up to n lines, after which input() finds
\* the end of the file
Stdins(n) == SeqsUpTo(Values, n)

----------------------------------------------------------------------------
(* Direct calls of the resolver and the renderer                           *)

CallCollect ==
    /\ res.op = "init"
    /\ \E placeholders \in SUBSET PhNames, cli_args \in SeqsUpTo(Tokens, MaxArgs),
          stdin \in Stdins(Cardinality(PhNames)) :
          LET r == collect_placeholder_values(placeholders, cli_args, stdin)
          IN  res' = [NoRes EXCEPT !.op = "collect", !.phs = placeholders,
                                   !.args = cli_args, !.raised = r.raised,
                                   !.values = IF r.raised THEN EmptyDict ELSE r.values,
                                   !.prompts = r.prompts]
    /\ UNCHANGED <<disk, dflt>>

CallRender ==
    /\ res.op = "init"
    /\ \E commands \in SeqsUpTo(CmdTemplates, MaxCmds),
          values \in UNION { [D -> Values] : D \in SUBSET PhNames } :
          LET r == render_commands(commands, values)
          IN  res' = [NoRes EXCEPT !.op = "render", !.cmds = commands,
                                   !.values = values, !.raised = r.raised,
                                   !.rendered = r.cmds]
    /\ UNCHANGED <<disk, dflt>>

InitFn ==
    /\ disk = [kind |-> "missing", reg |-> EmptyDict]
    /\ dflt = EmptyDict
    /\ res = NoRes

NextFn == CallCollect \/ CallRender

SpecFn == InitFn /\ [][NextFn]_vars

----------------------------------------------------------------------------
(* storage.py                                                              *)

\* states of the backing file in which load_config returns the default:
\* no file, an empty file, text that is not JSON, JSON that is no object, a
\* file whose read raises OSError
DefaultKinds == {"missing", "blank", "badjson", "nondict", "unreadable"}

\* states in which load_config raises: ~/.cmdkit cannot be searched
\* (exists(), outside the try, raises PermissionError), the file is not
\* UTF-8 (read_text raises UnicodeDecodeError), the JSON is nested too deep
\* (json.loads raises RecursionError); neither is caught by
\* except (json.JSONDecodeError, OSError)
RaisingKinds == {"noaccess", "notutf8", "toodeep"}

\* states in which load_config returns what the file holds although its
\* "workflows" value is no JSON object: {"workflows": null} and
\* {"workflows": ["a"]}
ShapeKinds == {"wfnull", "wflist"}

\* the elements of the list a "wflist" file holds as "workflows"
ListItems == {"a"}

\* the states of the backing file the model tells apart: the above, a JSON
\* object without a "workflows" key, and a JSON object holding a registry
DiskKinds == DefaultKinds \cup RaisingKinds \cup ShapeKinds \cup {"nokey", "ok"}

\* load_config() with the file in state d and DEFAULT_CONFIG["workflows"]
\* holding df.  DEFAULT_CONFIG.copy() is a shallow copy: the config returned
\* shares the workflows dict with DEFAULT_CONFIG (shared).  shape tells what
\* config["workflows"] is: a dict (workflows holds it), None, or a list of
\* ListItems; the value is returned as the file holds it.
load_config(d, df) ==
    LET ret == [raised |-> FALSE, shape |-> "dict", workflows |-> EmptyDict,
                shared |-> FALSE]
    IN  IF d.kind \in RaisingKinds THEN [ret EXCEPT !.raised = TRUE]
        ELSE IF d.kind \in DefaultKinds
        THEN [ret EXCEPT !.workflows = df, !.shared = TRUE]
        ELSE IF d.kind = "nokey" THEN ret
        ELSE IF d.kind = "wfnull" THEN [ret EXCEPT !.shape = "null"]
        ELSE IF d.kind = "wflist" THEN [ret EXCEPT !.shape = "list"]
        ELSE [ret EXCEPT !.workflows = d.reg]

\* name in config["workflows"]: membership in a dict or a list; TypeError
\* when the value is None
Contains(config, name) ==
    IF config.shape = "list" THEN name \in ListItems
    ELSE name \in DOMAIN config.workflows

\* what write_text does: writes the file; fails in open() and leaves the
\* file as it was; fails after open() truncated the file, which is left
\* empty or holding a prefix of the JSON text
WriteOutcomes == {"ok", "refused", "truncated", "partial"}

\* save_config(config): mkdir runs outside the try, write_text inside it.
\* [raised, disk]
save_config(workflows, d, mkdirOk, write) ==
    IF ~mkdirOk THEN [raised |-> TRUE, disk |-> d]
    ELSE IF write = "refused" THEN [raised |-> FALSE, disk |-> d]
    ELSE IF write = "truncated"
    THEN [raised |-> FALSE, disk |-> [kind |-> "blank", reg |-> EmptyDict]]
    ELSE IF write = "partial"
    THEN [raised |-> FALSE, disk |-> [kind |-> "badjson", reg |-> EmptyDict]]
    ELSE [raised |-> FALSE, disk |-> [kind |-> "ok", reg |-> workflows]]

----------------------------------------------------------------------------
(* main.py: save, tag                                                      *)

Names == {"a", "b"}
TagNames == {"t"}

\* lines 113-121 of save: add the workflow, persist, report
save_store(name, commands, mkdirOk, write) ==
    LET config == load_config(disk, dflt)
        wfs    == Put(config.workflows, name, [commands |-> commands, tags |-> <<>>])
        w      == save_config(wfs, disk, mkdirOk, write)
    IN  /\ dflt' = IF config.shared THEN wfs ELSE dflt
        /\ disk' = w.disk
        /\ res' = [NoRes EXCEPT !.op = "save", !.name = name, !.cmds = commands,
                                !.loads = 1, !.saves = 1, !.raised = w.raised,
                                !.exit = IF w.raised THEN 1 ELSE 0]

\* lines 94-96 and 102-104: the two validation failures
save_reject(name, commands, loads) ==
    /\ res' = [NoRes EXCEPT !.op = "save", !.name = name, !.cmds = commands,
                            !.loads = loads, !.exit = 1]
    /\ UNCHANGED <<disk, dflt>>

\* an exception that leaves save after the load and before save_config:
\* load_config raises at line 99; name in None raises TypeError at line 102;
\* the item assignment on None or on a list raises TypeError at line 114
save_load_raises(name, commands) ==
    /\ res' = [NoRes EXCEPT !.op = "save", !.name = name, !.cmds = commands,
                            !.loads = 1, !.raised = TRUE, !.exit = 1]
    /\ UNCHANGED <<disk, dflt>>

save_NoDuplicateCheck(name, commands, mkdirOk, write) ==
    LET config == load_config(disk, dflt)
    IN  IF commands = <<>> THEN save_reject(name, commands, 0)
        ELSE IF config.raised \/ config.shape # "dict"
        THEN save_load_raises(name, commands)
        ELSE save_store(name, commands, mkdirOk, write)

save(name, commands, mkdirOk, write) ==
    LET config == load_config(disk, dflt)
    IN  IF commands = <<>> THEN save_reject(name, commands, 0)
        ELSE IF config.raised \/ config.shape = "null"
        THEN save_load_raises(name, commands)
        ELSE IF Contains(config, name) THEN save_reject(name, commands, 1)
        ELSE IF config.shape = "list" THEN save_load_raises(name, commands)
        ELSE save_store(name, commands, mkdirOk, write)

InSeq(x, q) == \E i \in DOMAIN q : q[i] = x

\* tag: workflow_name not in None raises TypeError at line 313; a list is
\* searched at line 313 and indexed by the name at line 317, a TypeError
tag(workflow_name, tag_name, mkdirOk, write) ==
    LET config == load_config(disk, dflt)
        base   == [NoRes EXCEPT !.op = "tag", !.name = workflow_name,
                                !.tag = tag_name, !.loads = 1]
    IN  IF config.raised \/ config.shape = "null"
        THEN res' = [base EXCEPT !.raised = TRUE, !.exit = 1] /\ UNCHANGED <<disk, dflt>>
        ELSE IF ~Contains(config, workflow_name)
        THEN res' = [base EXCEPT !.exit = 1] /\ UNCHANGED <<disk, dflt>>
        ELSE IF config.shape = "list"
        THEN res' = [base EXCEPT !.raised = TRUE, !.exit = 1] /\ UNCHANGED <<disk, dflt>>
        ELSE IF InSeq(tag_name, config.workflows[workflow_name].tags)
        THEN res' = base /\ UNCHANGED <<disk, dflt>>
        ELSE LET wfs == [config.workflows EXCEPT
                            ![workflow_name].tags = Append(@, tag_name)]
                 w   == save_config(wfs, disk, mkdirOk, write)
             IN  /\ dflt' = IF config.shared THEN wfs ELSE dflt
                 /\ disk' = w.disk
                 /\ res' = [base EXCEPT !.saves = 1, !.raised = w.raised,
                                        !.exit = IF w.raised THEN 1 ELSE 0]

\* a bare load_config() call, as list and search make; its exception
\* leaves the command
Load ==
    LET config == load_config(disk, dflt)
    IN  /\ res' = [NoRes EXCEPT !.op = "load", !.loads = 1,
                                !.raised = config.raised,
                                !.exit = IF config.raised THEN 1 ELSE 0,
                                !.shape = config.shape,
                                !.loaded = config.workflows]
        /\ UNCHANGED <<disk, dflt>>

\* the save command: typer requires at least one COMMANDS argument, so the
\* function is entered with a non-empty list
Save ==
    \E name \in Names, commands \in SeqsUpTo(CmdTemplates, 1) \ {<<>>},
       mkdirOk \in BOOLEAN, write \in WriteOutcomes :
        save(name, commands, mkdirOk, write)

Tag ==
    \E workflow_name \in Names, tag_name \in TagNames,
       mkdirOk \in BOOLEAN, write \in WriteOutcomes :
        tag(workflow_name, tag_name, mkdirOk, write)

InitStore ==
    /\ disk \in { [kind |-> k, reg |-> EmptyDict] : k \in DiskKinds }
    /\ dflt = EmptyDict
    /\ res = NoRes

NextStore == Save \/ Tag \/ Load

SpecStore == InitStore /\ [][NextStore]_vars

----------------------------------------------------------------------------
(* main.py: run                                                            *)

AndOp == <<"&", "&">>
OrOp  == <<"|", "|">>

\* a printed line: what it is, the index it carries (0: none), its text
Line(kind, idx, text) == [kind |-> kind, idx |-> idx, text |-> text]

\* the chain operator the flags select; <<>> in the default mode
ModeOp(sof, sos) == IF sof THEN AndOp ELSE IF sos THEN OrOp ELSE <<>>

\* lines 214-224: the preview
DryRun_JoinedPreview(r, rendered) ==
    [r EXCEPT !.exit = 0,
              !.out = <<Line("header", 0, <<>>), Line("mode", 0, ModeOp(r.sof, r.sos))>>
                      \o IF r.sof \/ r.sos
                         THEN <<Line("cmd", 1,
                                     Join(<<" ">> \o ModeOp(r.sof, r.sos) \o <<" ">>,
                                          rendered))>>
                         ELSE [i \in 1..Len(rendered) |-> Line("cmd", i, rendered[i])]]

DryRun(r, rendered) ==
    [r EXCEPT !.exit = 0,
              !.out = <<Line("header", 0, <<>>), Line("mode", 0, ModeOp(r.sof, r.sos))>>
                      \o [i \in 1..Len(rendered) |-> Line("cmd", i, rendered[i])]]

\* lines 229-246: one shell runs the joined line and returns rc
Chained_ExitOne(r, rendered, op, rc) ==
    LET chained == Join(<<" ">> \o op \o <<" ">>, rendered)
    IN  [r EXCEPT !.spawned = <<chained>>, !.rcs = <<rc>>,
                  !.out = <<Line("header", 0, <<>>), Line("chained", 0, chained)>>
                          \o IF rc # 0 THEN <<Line("error", 0, <<>>)>>
                             ELSE <<Line("success", 0, <<>>), Line("completed", 0, <<>>)>>,
                  !.exit = IF rc # 0 THEN 1 ELSE 0]

Chained(r, rendered, op, rc) ==
    LET chained == Join(<<" ">> \o op \o <<" ">>, rendered)
    IN  [r EXCEPT !.spawned = <<chained>>, !.rcs = <<rc>>,
                  !.out = <<Line("header", 0, <<>>), Line("chained", 0, chained)>>
                          \o IF rc # 0 THEN <<Line("error", 0, <<>>)>>
                             ELSE <<Line("success", 0, <<>>), Line("completed", 0, <<>>)>>,
                  !.exit = IF rc # 0 THEN rc ELSE 0]

\* lines 250-257: the loop from command i on; acc = [spawned, rcs, failed, out]
RECURSIVE RunAllLoop_StopsAtFailure(_, _, _, _)
RunAllLoop_StopsAtFailure(rendered, codes, i, acc) ==
    IF i > Len(rendered) THEN acc
    ELSE LET cmd == rendered[i]
             rc  == codes[i]
             ran == [acc EXCEPT !.spawned = Append(@, cmd), !.rcs = Append(@, rc),
                                !.out = Append(@, Line("cmd", i, cmd))]
         IN  IF rc # 0
             THEN [ran EXCEPT !.failed = Append(@, <<i, cmd, rc>>),
                              !.out = Append(@, Line("error", i, <<>>))]
             ELSE RunAllLoop_StopsAtFailure(rendered, codes, i + 1,
                      [ran EXCEPT !.out = Append(@, Line("success", i, <<>>))])

RECURSIVE RunAllLoop(_, _, _, _)
RunAllLoop(rendered, codes, i, acc) ==
    IF i > Len(rendered) THEN acc
    ELSE LET cmd == rendered[i]
             rc  == codes[i]
             ran == [acc EXCEPT !.spawned = Append(@, cmd), !.rcs = Append(@, rc),
                                !.out = Append(@, Line("cmd", i, cmd))]
         IN  IF rc # 0
             THEN RunAllLoop(rendered, codes, i + 1,
                      [ran EXCEPT !.failed = Append(@, <<i, cmd, rc>>),
                                  !.out = Append(@, Line("error", i, <<>>))])
             ELSE RunAllLoop(rendered, codes, i + 1,
                      [ran EXCEPT !.out = Append(@, Line("success", i, <<>>))])

\* lines 247-265: the default mode
RunAll(r, rendered, codes) ==
    LET a == RunAllLoop(rendered, codes, 1,
                 [spawned |-> <<>>, rcs |-> <<>>, failed |-> <<>>,
                  out |-> <<Line("header", 0, <<>>)>>])
    IN  [r EXCEPT !.spawned = a.spawned, !.rcs = a.rcs, !.failed = a.failed,
                  !.out = a.out \o IF a.failed # <<>> THEN <<Line("error", 0, <<>>)>>
                                   ELSE <<Line("completed", 0, <<>>)>>,
                  !.exit = IF a.failed # <<>> THEN 1 ELSE 0]

\* lines 226-265
Execute(r, rendered, codes) ==
    IF r.sof THEN Chained(r, rendered, AndOp, codes[1])
    ELSE IF r.sos THEN Chained(r, rendered, OrOp, codes[1])
    ELSE RunAll(r, rendered, codes)

\* lines 213-265: r holds the call's inputs and what it did so far
RunRendered_IgnoresDry(r, rendered, codes) == Execute(r, rendered, codes)

RunRendered(r, rendered, codes) ==
    IF r.dry THEN DryRun(r, rendered) ELSE Execute(r, rendered, codes)

\* lines 193-265: run once the flags are validated.  An exception leaves run
\* where it is raised: load_config's at line 194, the TypeError of a
\* "workflows" value that is None at line 197 or a list at line 201, the
\* EOFError of input() at line 208, before anything is rendered or spawned
run_checked(workflow_name, dry, sof, sos, args, stdin, codes) ==
    LET config == load_config(disk, dflt)
        base   == [NoRes EXCEPT !.op = "run", !.name = workflow_name, !.dry = dry,
                                !.sof = sof, !.sos = sos, !.args = args, !.loads = 1]
    IN  IF config.raised \/ config.shape = "null"
        THEN [base EXCEPT !.raised = TRUE, !.exit = 1]
        ELSE IF ~Contains(config, workflow_name)
        THEN [base EXCEPT !.exit = 1, !.out = <<Line("error", 0, <<>>)>>]
        ELSE IF config.shape = "list" THEN [base EXCEPT !.raised = TRUE, !.exit = 1]
        ELSE LET commands == config.workflows[workflow_name].commands
                 got      == collect_placeholder_values(
                                 extract_placeholders(commands), args, stdin)
                 rr       == render_commands(commands, got.values)
                 r        == [base EXCEPT !.cmds = commands, !.prompts = got.prompts,
                                          !.values = got.values, !.rendered = rr.cmds]
             IN  IF got.raised
                 THEN [base EXCEPT !.cmds = commands, !.prompts = got.prompts,
                                   !.raised = TRUE, !.exit = 1]
                 ELSE IF rr.raised THEN [r EXCEPT !.raised = TRUE, !.exit = 1]
                 ELSE RunRendered(r, rr.cmds, codes)

run_NoValidation(workflow_name, dry, sof, sos, args, stdin, codes) ==
    run_checked(workflow_name, dry, sof, sos, args, stdin, codes)

\* the record of run(workflow_name, dry, stop_on_fail, stop_on_success) with
\* ctx.args = args, input() returning the lines of stdin, and the k-th
\* subprocess.run returning codes[k]
run(workflow_name, dry, sof, sos, args, stdin, codes) ==
    IF sof /\ sos
    THEN [NoRes EXCEPT !.op = "run", !.name = workflow_name, !.dry = dry,
                       !.sof = sof, !.sos = sos, !.args = args, !.exit = 1,
                       !.out = <<Line("error", 0, <<>>)>>]
    ELSE run_checked(workflow_name, dry, sof, sos, args, stdin, codes)

\* trailing arguments of a run
RunArgs ==
    { <<>>,
      << <<"-", "-", "x">>, <<"v">> >>,
      << <<"-", "-", "x">>, <<"-", "-", "y">>, <<"w">>, <<"-", "-", "x">>, <<"w">> >> }

\* the names run can prompt for: the placeholders of the command templates
RunPlaceholders == extract_placeholders(SetToSeq(CmdTemplates))

\* the processes a call can start: one in a chained mode, one per command
\* otherwise
SpawnsOf(workflow_name, sof, sos) ==
    LET wfs == load_config(disk, dflt).workflows
    IN  IF workflow_name \notin DOMAIN wfs THEN 0
        ELSE IF sof \/ sos THEN 1
        ELSE Len(wfs[workflow_name].commands)

\* one process runs one command
Run ==
    /\ res.op = "init"
    /\ \E workflow_name \in Names, dry \in BOOLEAN, sof \in BOOLEAN, sos \in BOOLEAN,
          args \in RunArgs, stdin \in Stdins(Cardinality(RunPlaceholders)) :
          \E codes \in [1..SpawnsOf(workflow_name, sof, sos) -> ExitCodes] :
              res' = run(workflow_name, dry, sof, sos, args, stdin, codes)
    /\ UNCHANGED <<disk, dflt>>

\* the registry holds workflow "a", saved with any non-empty command list, or
\* the backing file is in any state that holds no workflow
InitRun ==
    /\ disk \in { [kind |-> "ok",
                   reg  |-> Put(EmptyDict, "a", [commands |-> c, tags |-> <<>>])] :
                  c \in SeqsUpTo(CmdTemplates, MaxCmds) \ {<<>>} }
               \cup { [kind |-> k, reg |-> EmptyDict] : k \in DiskKinds }
    /\ dflt = EmptyDict
    /\ res = NoRes

NextRun == Run

SpecRun == InitRun /\ [][NextRun]_vars

----------------------------------------------------------------------------
(* Claims about run                                                        *)

\* the registry the store holds
StoredReg == IF disk.kind = "ok" THEN disk.reg ELSE EmptyDict

\* a run that found its workflow and passed flag validation
RunFound == res.op = "run" /\ ~(res.sof /\ res.sos) /\ res.name \in DOMAIN StoredReg

\* a run that reached the execution engine: every prompt was answered and the
\* commands were rendered
RunEngine == RunFound /\ ~res.raised

\* C1: in the default mode without dry-run every rendered command is spawned
\* exactly once, in order, whatever the earlier exit codes; the failure list
\* is exactly the (index, command, code) of the non-zero exits, in execution
\* order; the exit code is 1 if some command failed and 0 otherwise.  The
\* commands are rendered in every run whose prompts were all answered.
C1_RunAllRunsEverything ==
    (RunEngine /\ ~res.dry /\ ~res.sof /\ ~res.sos) =>
        /\ Len(res.rendered) = Len(res.cmds)
        /\ res.spawned = res.rendered
        /\ Len(res.rcs) = Len(res.spawned)
        /\ \A k \in DOMAIN res.failed :
              \E i \in DOMAIN res.rcs :
                  res.rcs[i] # 0 /\ res.failed[k] = <<i, res.rendered[i], res.rcs[i]>>
        /\ \A j, k \in DOMAIN res.failed : j < k => res.failed[j][1] < res.failed[k][1]
        /\ \A i \in DOMAIN res.rcs :
              res.rcs[i] # 0 =>
                  \E k \in DOMAIN res.failed :
                      res.failed[k] = <<i, res.rendered[i], res.rcs[i]>>
        /\ res.exit = IF \E i \in DOMAIN res.rcs : res.rcs[i] # 0 THEN 1 ELSE 0

\* exit codes [0, 1, 0]: all three ran, one failure recorded, exit code 1
C1_Witness ==
    /\ RunEngine /\ ~res.dry /\ ~res.sof /\ ~res.sos
    /\ res.rcs = <<0, 1, 0>>
    /\ Len(res.spawned) = 3
    /\ Len(res.failed) = 1 /\ res.failed[1][1] = 2
    /\ res.exit = 1

\* C2: run with both stop flags exits 1 before the registry is loaded, before
\* any prompt and before any process is spawned, for every workflow name,
\* dry-run setting and trailing arguments.
C2_BothFlagsRejectedFirst ==
    (res.op = "run" /\ res.sof /\ res.sos) =>
        /\ res.exit = 1
        /\ ~res.raised
        /\ res.loads = 0
        /\ res.prompts = <<>>
        /\ res.spawned = <<>>

\* both flags on a stored workflow whose run would otherwise prompt and spawn
C2_Witness ==
    /\ res.op = "run" /\ res.sof /\ res.sos /\ ~res.dry
    /\ res.name \in DOMAIN StoredReg
    /\ extract_placeholders(StoredReg[res.name].commands) # {}
    /\ res.args = <<>>
    /\ res.exit = 1

\* C3: dry-run on a stored workflow spawns nothing, in each of the three modes
\* and for any command list, and exits 0 once the commands are rendered; the
\* one run that ends otherwise is the run whose prompt met the end of stdin,
\* which previews nothing.
C3_DryRunSpawnsNothing ==
    (RunFound /\ res.dry) =>
        /\ res.spawned = <<>>
        /\ res.rcs = <<>>
        /\ res.exit = IF res.raised THEN 1 ELSE 0
        /\ res.raised => res.prompts # <<>> /\ res.out = <<>>

\* a dry-run of a three-command workflow in the AND-chain mode, one prompt
\* answered
C3_Witness ==
    /\ RunEngine /\ res.dry /\ res.sof
    /\ Len(res.prompts) = 1
    /\ Len(res.rendered) = 3
    /\ res.spawned = <<>>
    /\ res.exit = 0

\* parts joined by " op ", built from the left
RECURSIVE ChainLine(_, _, _)
ChainLine(op, parts, n) ==
    IF n = 0 THEN <<>>
    ELSE IF n = 1 THEN parts[1]
    ELSE ChainLine(op, parts, n - 1) \o <<" ">> \o op \o <<" ">> \o parts[n]

\* C4: in a chained mode without dry-run exactly one process is spawned, its
\* command line is the rendered commands in order joined by && (stop-on-fail)
\* or || (stop-on-success), and the exit code is that process's exit code.
C4_ChainedPropagatesExitCode ==
    (RunEngine /\ ~res.dry /\ (res.sof \/ res.sos)) =>
        /\ Len(res.spawned) = 1
        /\ Len(res.rcs) = 1
        /\ res.spawned[1] = ChainLine(IF res.sof THEN <<"&", "&">> ELSE <<"|", "|">>,
                                      res.rendered, Len(res.rendered))
        /\ Len(res.rendered) = Len(res.cmds)
        /\ res.exit = res.rcs[1]
        /\ res.failed = <<>>

\* an OR-chain of two commands whose shell exits 2
C4_Witness ==
    /\ RunEngine /\ ~res.dry /\ res.sos
    /\ Len(res.rendered) = 2
    /\ res.rcs = <<2>>
    /\ res.exit = 2

\* C8 as claimed: the dry-run preview of a chained mode reports the single
\* joined command line and the chain operator; the preview of the default
\* mode reports each rendered command with its index.
C8_ChainedPreviewShowsJoinedLine ==
    (RunEngine /\ res.dry) =>
        IF res.sof \/ res.sos
        THEN /\ \E n \in DOMAIN res.out :
                    res.out[n].text = ChainLine(ModeOp(res.sof, res.sos), res.rendered,
                                                Len(res.rendered))
             /\ \E n \in DOMAIN res.out :
                    res.out[n].kind = "mode" /\ res.out[n].text = ModeOp(res.sof, res.sos)
        ELSE \A i \in DOMAIN res.rendered :
                 \E n \in DOMAIN res.out :
                     res.out[n] = Line("cmd", i, res.rendered[i])

\* C8 amended: the dry-run preview is, in every mode, a header, a mode line
\* naming the chain operator of a chained mode (none in the default mode), and
\* then each rendered command with its index, in order.
C8_PreviewListsCommandsInEveryMode ==
    (RunEngine /\ res.dry) =>
        /\ Len(res.out) = Len(res.rendered) + 2
        /\ res.out[1].kind = "header"
        /\ res.out[2].kind = "mode"
        /\ res.out[2].text = (IF res.sof THEN <<"&", "&">>
                              ELSE IF res.sos THEN <<"|", "|">> ELSE <<>>)
        /\ \A i \in DOMAIN res.rendered :
               res.out[i + 2] = Line("cmd", i, res.rendered[i])

\* a dry-run of a two-command workflow in the OR-chain mode
C8_Witness ==
    /\ RunEngine /\ res.dry /\ res.sos
    /\ Len(res.rendered) = 2
    /\ Len(res.out) = 4
    /\ res.out[4].idx = 2

----------------------------------------------------------------------------
(* Claims about the resolver and the renderer                              *)

\* positions of cli_args where --p is followed by a value
SuppliedAt(p, cli_args) ==
    { i \in DOMAIN cli_args :
        /\ cli_args[i] = <<"-", "-">> \o p
        /\ i < Len(cli_args)
        /\ ~StartsWith(cli_args[i + 1], <<"-", "-">>) }

\* the placeholders the parse of cli_args left unresolved
Unresolved(placeholders, cli_args) ==
    { p \in placeholders : SuppliedAt(p, cli_args) = {} }

\* C5: the prompt is invoked at most once for a placeholder, in lexicographic
\* order over the placeholders not supplied as --key value, and never for a
\* supplied one.  With every prompt answered the resolver returns a mapping
\* with an entry for every placeholder, has prompted exactly once for each
\* unresolved one, and a supplied placeholder has its (last) supplied value.
\* A prompt that meets the end of stdin ends the call: the names prompted for
\* are then the first of the unresolved ones.
C5_ResolverPrecedence ==
    res.op = "collect" =>
        LET todo == Unresolved(res.phs, res.args)
        IN  /\ Range(res.prompts) \subseteq todo
            /\ \A j, k \in DOMAIN res.prompts :
                   j < k => StrLess(res.prompts[j], res.prompts[k])
            /\ \A p \in Range(res.prompts), q \in todo :
                   StrLess(q, p) => q \in Range(res.prompts)
            /\ res.raised => res.prompts # <<>>
            /\ ~res.raised =>
                   /\ res.phs \subseteq DOMAIN res.values
                   /\ Range(res.prompts) = todo
                   /\ \A p \in res.phs \ todo :
                          LET at == SuppliedAt(p, res.args)
                          IN  res.values[p] =
                                  res.args[(CHOOSE i \in at : \A j \in at : j <= i) + 1]

\* x given as --x v, k and y prompted for in that order and answered
C5_Witness ==
    /\ res.op = "collect" /\ ~res.raised
    /\ res.phs = PhNames
    /\ res.args = << <<"-", "-", "x">>, <<"v">> >>
    /\ res.prompts = << <<"k">>, <<"y">> >>
    /\ res.values[<<"x">>] = <<"v">>
    /\ res.values[<<"k">>] # res.values[<<"y">>]

\* C7 as claimed: render_commands fails whenever a command holds a placeholder
\* {{name}} with no entry in the mapping, and returns no rendered commands.
C7_RenderFailsOnMissingValue ==
    (res.op = "render" /\ extract_placeholders(res.cmds) \ DOMAIN res.values # {}) =>
        res.raised /\ res.rendered = <<>>

----------------------------------------------------------------------------
(* Claims about the store                                                  *)

\* C6: a save whose name is a key of the stored registry exits 1 without
\* calling save_config and leaves the registry as it was, after any earlier
\* saves and tags.
C6_DuplicateSaveRejected ==
    [][(res'.op = "save" /\ res'.name \in DOMAIN StoredReg) =>
          /\ res'.exit = 1
          /\ ~res'.raised
          /\ res'.saves = 0
          /\ disk' = disk
          /\ dflt' = dflt]_vars

\* a rejected save of a stored workflow that carries a tag
C6_Witness ==
    /\ res.op = "save" /\ res.cmds # <<>> /\ res.exit = 1
    /\ res.name \in DOMAIN StoredReg
    /\ StoredReg[res.name].tags # <<>>
    /\ Cardinality(DOMAIN StoredReg) = 2

\* C9 as claimed: with the backing file missing or corrupted, a load_config
\* that returns gives a registry with no workflows, whatever was done before.
C9_DefaultIsAlwaysEmpty ==
    (res.op = "load" /\ disk.kind \in DefaultKinds \cup RaisingKinds /\ ~res.raised)
        => res.loaded = EmptyDict

\* C10 as claimed: save_config never raises, so save and tag end normally
\* whenever they reach it.
C10_SaveConfigNeverRaises ==
    (res.op \in {"save", "tag"} /\ res.saves = 1) => ~res.raised /\ res.exit = 0

====
